---- MODULE Spec2Model ----
(***************************************************************************)
(* Federal Register miner: the single-date run (federal_register_miner.py) *)
(* and the historical run (historical_fr_miner.py) over one repository     *)
(* directory.  The directory (state file, artifact files, index file) and  *)
(* the publish collaborator's call log persist between runs; everything    *)
(* else is the memory of the run in progress, lost when the process ends.  *)
(* Runs are executed one at a time.  A run is a sequence of steps, one per *)
(* statement that touches a file, the network or the collaborator, and the *)
(* process may be terminated between any two steps.                        *)
(***************************************************************************)
EXTENDS Integers, Sequences, FiniteSets, TLC

VARIABLES
    stateFile,          \* fr_state.json: NoFile or [published_docs, next_story_num]
    artifacts,          \* story files of REPO_DIR: filename |-> document_number written in it
    indexFile,          \* index.html: NoIndex or its content, a sequence of pieces
    pubLog,             \* calls of git_commit_push, oldest first
    upstream,           \* what the API holds: "any" or "forty_per_day"
    runs,               \* runs started so far
    mode,               \* "none", "single" (federal_register_miner) or "hist"
    pc,                 \* position of the run in progress
    state,              \* the run's state dict
    new_stories,        \* mine_date's list of (filename, headline)
    page,               \* mine_date's page counter
    data,               \* the last response: [results, total_pages]
    idx,                \* position of the for loop in data.results
    batch_size,         \* mine_date's batch_size (single-date mode)
    days_back,          \* main's days_back (historical mode)
    batch_commit_size,  \* main's batch_commit_size (historical mode)
    i,                  \* main's loop variable over the days (historical mode)
    batch_stories,      \* main's accumulator (historical mode)
    total_new,          \* main's total_new (historical mode)
    ret,                \* what main returned
    returned,           \* history: documents the fetcher returned during this run
    examined,           \* history: documents the for loop has looked at during this run
    failedDays,         \* history: days of this run on which a fetch failed
    fetched,            \* history: the requests of the current date: [page, outcome]
    before,             \* history: the directory and the call log as this run found them
    prev,               \* history: the previous run, if it ran to its end
    feed,               \* the pages of a date at an upstream whose content is stable
    arg_title,          \* a title given to slugify and to create_story_html
    arg_num,            \* a story_num given to create_story_html
    result              \* what slugify returned for arg_title

vars == <<stateFile, artifacts, indexFile, pubLog, upstream, runs, mode, pc, state,
          new_stories, page, data, idx, batch_size, days_back, batch_commit_size, i,
          batch_stories, total_new, ret, returned, examined, failedDays, fetched,
          before, prev, feed, arg_title, arg_num, result>>

disk == <<stateFile, artifacts, indexFile>>
inputs == <<feed, arg_title, arg_num, result>>
memory == <<state, new_stories, page, data, idx, batch_size, days_back,
            batch_commit_size, i, batch_stories, total_new>>

----------------------------------------------------------------------------
(* Bounds of the model *)

NumDocs == 2        \* documents the upstream may hold
MaxPerPage == 2     \* documents on one page
MaxPages == 2       \* largest total_pages a response reports
MaxBatch == 1       \* largest batch_size tried
MaxDays == 2        \* largest days_back tried
MaxCommit == 2      \* largest batch_commit_size tried
MaxRuns == 2        \* runs in one behaviour

----------------------------------------------------------------------------
(* Program constants *)

FallbackStoryNum == 547     \* load_state's next_story_num when there is no file
SlugMax == 50               \* slugify's slug[:50]
PadWidth == 3               \* the 03d of the filename

NoFile == [absent |-> TRUE]
NoDoc == 0
Docs == 1 .. NumDocs

----------------------------------------------------------------------------
(* Text: a string is a sequence of one-character strings *)

RECURSIVE SeqMax(_)
SeqMax(S) ==
    IF S = {} THEN 0
    ELSE LET x == CHOOSE y \in S : TRUE
             m == SeqMax(S \ {x})
         IN IF x > m THEN x ELSE m

UpperChars == <<"A","B","C","D","E","F","G","H","I","J","K","L","M",
                "N","O","P","Q","R","S","T","U","V","W","X","Y","Z">>
LowerChars == <<"a","b","c","d","e","f","g","h","i","j","k","l","m",
                "n","o","p","q","r","s","t","u","v","w","x","y","z">>
DigitChars == <<"0","1","2","3","4","5","6","7","8","9">>
SpaceChars == {" ", "\t", "\n"}

Range(s) == { s[k] : k \in 1 .. Len(s) }

Lower(c) ==
    IF c \in Range(UpperChars)
    THEN LowerChars[CHOOSE k \in 1 .. 26 : UpperChars[k] = c]
    ELSE c

IsDigit(c) == c \in Range(DigitChars)
DigitVal(c) == (CHOOSE k \in 1 .. 10 : DigitChars[k] = c) - 1

StartsWith(s, p) == Len(s) >= Len(p) /\ SubSeq(s, 1, Len(p)) = p
EndsWith(s, p) == Len(s) >= Len(p) /\ SubSeq(s, Len(s) - Len(p) + 1, Len(s)) = p

----------------------------------------------------------------------------
(* slugify *)

SlugKeep(c) == c \in Range(LowerChars) \cup Range(DigitChars) \cup SpaceChars \cup {"-"}
SlugSep(c) == c \in SpaceChars \cup {"_", "-"}

LowerSeq(s) == [k \in 1 .. Len(s) |-> Lower(s[k])]

\* re.sub(r'[\s_-]+', '-', slug): every maximal run of separators becomes one hyphen
RECURSIVE Collapse(_)
Collapse(s) ==
    IF s = <<>> THEN <<>>
    ELSE IF SlugSep(s[1])
         THEN IF Len(s) >= 2 /\ SlugSep(s[2])
              THEN Collapse(Tail(s))
              ELSE <<"-">> \o Collapse(Tail(s))
         ELSE <<s[1]>> \o Collapse(Tail(s))

\* slug.strip('-')
RECURSIVE StripHyphens(_)
StripHyphens(s) ==
    IF s = <<>> THEN <<>>
    ELSE IF s[1] = "-" THEN StripHyphens(Tail(s))
    ELSE IF s[Len(s)] = "-" THEN StripHyphens(SubSeq(s, 1, Len(s) - 1))
    ELSE s

Truncate(s, n) == IF Len(s) > n THEN SubSeq(s, 1, n) ELSE s

slugify(title) ==
    Truncate(StripHyphens(Collapse(SelectSeq(LowerSeq(title), SlugKeep))), SlugMax)

----------------------------------------------------------------------------
(* Filenames and the sequence number in them *)

RECURSIVE ToDigits(_)
ToDigits(n) ==
    IF n < 10 THEN <<DigitChars[n + 1]>>
    ELSE ToDigits(n \div 10) \o <<DigitChars[(n % 10) + 1]>>

RECURSIVE ZeroPad(_, _)
ZeroPad(s, w) == IF Len(s) >= w THEN s ELSE ZeroPad(<<"0">> \o s, w)

StoryPrefix == <<"s","t","o","r","y","-">>
FrInfix == <<"-","f","r","-">>
HtmlSuffix == <<".","h","t","m","l">>

\* variant: the slug put right after the number, f"story-{story_num:03d}{slug}.html"
StoryFilenameNoInfix(story_num, slug) ==
    StoryPrefix \o ZeroPad(ToDigits(story_num), PadWidth) \o slug \o HtmlSuffix

\* f"story-{story_num:03d}-fr-{slug}.html"
StoryFilename(story_num, slug) ==
    StoryPrefix \o ZeroPad(ToDigits(story_num), PadWidth) \o FrInfix \o slug \o HtmlSuffix

\* create_story_html: the name of the file it writes, for a document of that title
create_story_html(title, story_num) == StoryFilename(story_num, slugify(title))

\* the digits re.match(r'story-(\d+)', f) captures: the longest run from position k on
RECURSIVE DigitRun(_, _)
DigitRun(f, k) ==
    IF k <= Len(f) /\ IsDigit(f[k]) THEN <<f[k]>> \o DigitRun(f, k + 1) ELSE <<>>

RECURSIVE ToInt(_)
ToInt(ds) ==
    IF ds = <<>> THEN 0
    ELSE 10 * ToInt(SubSeq(ds, 1, Len(ds) - 1)) + DigitVal(ds[Len(ds)])

IsStoryFile(f) == StartsWith(f, StoryPrefix) /\ EndsWith(f, HtmlSuffix)
HasNumber(f) == StartsWith(f, StoryPrefix) /\ DigitRun(f, Len(StoryPrefix) + 1) # <<>>
EmbeddedNum(f) == ToInt(DigitRun(f, Len(StoryPrefix) + 1))

\* variant: max(nums) without the + 1
get_next_story_numIsMax(names) ==
    LET nums == { EmbeddedNum(f) : f \in { g \in names : IsStoryFile(g) /\ HasNumber(g) } }
    IN IF nums # {} THEN SeqMax(nums) ELSE 1

get_next_story_num(names) ==
    LET existing == { f \in names : IsStoryFile(f) }
        nums == { EmbeddedNum(f) : f \in { g \in existing : HasNumber(g) } }
    IN IF existing = {} THEN 1
       ELSE IF nums # {} THEN SeqMax(nums) + 1 ELSE 1

----------------------------------------------------------------------------
(* Documents *)

\* doc.get('title'): three kinds of title, by document number
Title(d) ==
    CASE d % 3 = 1 -> <<"T","a","x"," ","_","R","u","l","e","!">>
      [] d % 3 = 2 -> <<"4","2"," ","-"," ","C","F","R">>
      [] OTHER     -> <<"!","?">>

HeadlinePrefix == <<"F","R",":"," ">>
Headline(d) == HeadlinePrefix \o Title(d)

----------------------------------------------------------------------------
(* State store *)

\* variant: the file is never read
load_stateIgnoresFile(file) == [published_docs |-> <<>>, next_story_num |-> FallbackStoryNum]

\* load_state: the file's content, or the fallback when there is no file
load_state(file) ==
    IF file # NoFile THEN file
    ELSE [published_docs |-> <<>>, next_story_num |-> FallbackStoryNum]

FileNames(arts) == { a.name : a \in arts }

\* variant: the second statement left out, the loaded cursor is used
StartStateAsLoaded(file, arts) == load_state(file)

\* main: state = load_state(); state['next_story_num'] = get_next_story_num()
StartState(file, arts) ==
    [load_state(file) EXCEPT !.next_story_num = get_next_story_num(FileNames(arts))]

\* open(filepath, 'w'): the file of that name is created or replaced
WriteFile(arts, name, doc_num) ==
    { a \in arts : a.name # name } \cup { [name |-> name, doc |-> doc_num] }

----------------------------------------------------------------------------
(* Index *)

Text(t) == [kind |-> "text", text |-> t, filename |-> <<>>, headline |-> <<>>]
Marker == [kind |-> "marker", text |-> "<ul id=stories>", filename |-> <<>>, headline |-> <<>>]
Link(story) == [kind |-> "li", text |-> "", filename |-> story[1], headline |-> story[2]]

DefaultIndex == <<Text("head"), Marker, Text("tail")>>

\* stands for os.path.exists(index_path) being false: no content has this piece
NoIndex == <<[kind |-> "absent", text |-> "", filename |-> <<>>, headline |-> <<>>]>>

MarkerPos(content) ==
    IF \E k \in 1 .. Len(content) : content[k] = Marker
    THEN CHOOSE k \in 1 .. Len(content) :
            content[k] = Marker /\ \A j \in 1 .. k - 1 : content[j] # Marker
    ELSE 0

\* variant: the links put in front of the marker, content.find(insert_marker) alone
update_indexBeforeMarker(file, stories) ==
    LET content == IF file # NoIndex THEN file ELSE DefaultIndex
        insert_pos == MarkerPos(content)
        new_links == [k \in 1 .. Len(stories) |-> Link(stories[k])]
    IN IF insert_pos > 0
       THEN SubSeq(content, 1, insert_pos - 1) \o new_links
                \o SubSeq(content, insert_pos, Len(content))
       ELSE content

update_index(file, stories) ==
    LET content == IF file # NoIndex THEN file ELSE DefaultIndex
        insert_pos == MarkerPos(content)
        new_links == [k \in 1 .. Len(stories) |-> Link(stories[k])]
    IN IF insert_pos > 0
       THEN SubSeq(content, 1, insert_pos) \o new_links
                \o SubSeq(content, insert_pos + 1, Len(content))
       ELSE content

----------------------------------------------------------------------------
(* Upstream API *)

RECURSIVE SeqsUpTo(_, _)
SeqsUpTo(S, n) ==
    IF n = 0 THEN { <<>> }
    ELSE LET shorter == SeqsUpTo(S, n - 1)
         IN shorter \cup { Append(q, x) : q \in shorter, x \in S }

ResultLists == SeqsUpTo(Docs, MaxPerPage)

\* the scenario of forty new documents on each day, all on one page
FortyPage(day) == [k \in 1 .. 40 |-> 40 * day + k]

\* fetch_documents: what a successful request for (day, page) may answer;
\* total_pages is data.get('total_pages', 1)
Responses(up, day, pg) ==
    CASE up = "forty_per_day" ->
            { [results |-> IF pg = 1 THEN FortyPage(day) ELSE <<>>, total_pages |-> 1] }
      [] up = "stable" ->
            { [results |-> IF pg \in DOMAIN feed THEN feed[pg] ELSE <<>>,
               total_pages |-> Len(feed)] }
      [] OTHER ->
            { [results |-> r, total_pages |-> t] : r \in ResultLists, t \in 1 .. MaxPages }

NoData == [results |-> <<>>, total_pages |-> 0]

\* an upstream whose content for the date does not change between requests: the feed
\* is the date's pages, none of them empty, and every response reports their number
Feeds == SeqsUpTo(ResultLists \ { <<>> }, MaxPages)
FeedDocs == UNION { Range(feed[k]) : k \in 1 .. Len(feed) }

\* repeated runs against the stable upstream: one more than its documents
StableRuns == NumDocs + 1

----------------------------------------------------------------------------
(* Initial state: a repository directory the miner has not yet run in *)

EmptyState == [published_docs |-> <<>>, next_story_num |-> 0]
NoPrev == [ended |-> FALSE, mode |-> "none", limit |-> 0, returned |-> {}, examined |-> {}]

\* a story page that was in the directory before the miner's first run
ForeignName == StoryPrefix \o <<"0","0","2","-","l","a","u","n","c","h">> \o HtmlSuffix
ForeignFile == [name |-> ForeignName, doc |-> NoDoc]

NoBefore == [stateFile |-> NoFile, artifacts |-> {}, indexFile |-> NoIndex, calls |-> 0]
Found == [stateFile |-> stateFile, artifacts |-> artifacts, indexFile |-> indexFile,
          calls |-> Len(pubLog)]

IdleMemory ==
    /\ state' = EmptyState
    /\ new_stories' = <<>>
    /\ page' = 0
    /\ data' = NoData
    /\ idx' = 0
    /\ batch_size' = 0
    /\ days_back' = 0
    /\ batch_commit_size' = 0
    /\ i' = 0
    /\ batch_stories' = <<>>
    /\ total_new' = 0

\* no run in progress and none made yet
AtRest ==
    /\ pubLog = <<>>
    /\ runs = 0
    /\ mode = "none"
    /\ pc = "idle"
    /\ state = EmptyState
    /\ new_stories = <<>>
    /\ page = 0
    /\ data = NoData
    /\ idx = 0
    /\ batch_size = 0
    /\ days_back = 0
    /\ batch_commit_size = 0
    /\ i = 0
    /\ batch_stories = <<>>
    /\ total_new = 0
    /\ ret = 0
    /\ returned = {}
    /\ examined = {}
    /\ failedDays = {}
    /\ fetched = <<>>
    /\ before = NoBefore
    /\ prev = NoPrev

NoInputs ==
    /\ feed = <<>>
    /\ arg_title = <<>>
    /\ arg_num = 0
    /\ result = <<>>

Init ==
    /\ stateFile = NoFile
    /\ artifacts \in { {}, {ForeignFile} }
    /\ indexFile = NoIndex
    /\ upstream \in { "any", "forty_per_day" }
    /\ AtRest
    /\ NoInputs

\* the runs tried against each upstream
RunLimit ==
    CASE upstream = "forty_per_day" -> 1
      [] upstream = "stable" -> StableRuns
      [] OTHER -> MaxRuns
BatchSizes == IF upstream = "forty_per_day" THEN {} ELSE 0 .. MaxBatch
HistParams ==
    IF upstream = "forty_per_day" THEN { <<3, 100>>, <<3, 50>> }
    ELSE (1 .. MaxDays) \X (1 .. MaxCommit)

----------------------------------------------------------------------------
(* The decisions of the code, each as an operator, with a faulty variant of each *)

\* variant: the membership test left out
AlreadyPublishedNever(doc_num, st) == FALSE

\* mine_date: if doc_num in state['published_docs']
AlreadyPublished(doc_num, st) == doc_num \in Range(st.published_docs)

\* variant: the cursor left as it was
RecordPublishedSameNum(st, doc_num) ==
    [published_docs |-> Append(st.published_docs, doc_num),
     next_story_num |-> st.next_story_num]

\* variant: the ledger assigned instead of appended to
RecordPublishedOverwrites(st, doc_num) ==
    [published_docs |-> <<doc_num>>, next_story_num |-> st.next_story_num + 1]

\* mine_date: state['published_docs'].append(doc_num); state['next_story_num'] += 1
RecordPublished(st, doc_num) ==
    [published_docs |-> Append(st.published_docs, doc_num),
     next_story_num |-> st.next_story_num + 1]

\* variant: > for >=
BatchFullOffByOne(stories, limit) == Len(stories) > limit

\* mine_date: if len(new_stories) >= batch_size
BatchFull(stories, limit) == Len(stories) >= limit

\* variant: the flush done unconditionally
HasNewAlways(stories) == TRUE

\* main (single-date): if new_stories
HasNew(stories) == stories # <<>>

\* variant: > for >=
CheckpointDueOffByOne(stories, threshold) == Len(stories) > threshold

\* main (historical): if len(batch_stories) >= batch_commit_size
CheckpointDue(stories, threshold) == Len(stories) >= threshold

\* variant: no flush after the loop
FinalDueNever(stories) == FALSE

\* main (historical), after the loop: if batch_stories
FinalDue(stories) == stories # <<>>

\* variant: one page more than total_pages is asked for
PastLastPageOffByOne(pg, response) == pg > response.total_pages + 1

\* mine_date: if page > data.get('total_pages', 1): break
PastLastPage(pg, response) == pg > response.total_pages

\* variant: no except clause, the exception ends main
AfterFetchErrorAborts == "aborted"

\* mine_date: except Exception: print; break  -- the loop ends, the function returns
AfterFetchError == "mined"

\* variant: save_state left out of the flush
SingleFlushNoSave == <<"index", "publish">>

\* variant: git_commit_push before save_state
SingleFlushPublishFirst == <<"index", "publish", "save">>

\* the statements of main's flush, in order
SingleFlush == <<"index", "save", "publish">>
HistFlush == <<"save", "publish">>

FlushOf(m) == IF m = "single" THEN SingleFlush ELSE HistFlush

\* the position after position p of a flush
AfterStep(order, p) ==
    LET k == CHOOSE j \in 1 .. Len(order) : order[j] = p
    IN IF k < Len(order) THEN order[k + 1] ELSE "flushed"

DocsOf(stories, arts) ==
    { a.doc : a \in { b \in arts : \E k \in 1 .. Len(stories) : stories[k][1] = b.name } }

----------------------------------------------------------------------------
(* Start of a run: main's first two statements *)

StartSingle(limit) ==
    /\ pc = "idle"
    /\ runs < RunLimit
    /\ runs' = runs + 1
    /\ mode' = "single"
    /\ state' = StartState(stateFile, artifacts)
    /\ batch_size' = limit
    /\ new_stories' = <<>>
    /\ page' = 1
    /\ pc' = "fetch"
    /\ ret' = 0
    /\ returned' = {}
    /\ examined' = {}
    /\ failedDays' = {}
    /\ before' = Found
    /\ fetched' = <<>>
    /\ UNCHANGED <<inputs, disk, pubLog, upstream, data, idx, days_back, batch_commit_size, i,
                   batch_stories, total_new, prev>>

StartHist(days, threshold) ==
    /\ pc = "idle"
    /\ runs < RunLimit
    /\ runs' = runs + 1
    /\ mode' = "hist"
    /\ state' = StartState(stateFile, artifacts)
    /\ days_back' = days
    /\ batch_commit_size' = threshold
    /\ total_new' = 0
    /\ batch_stories' = <<>>
    /\ i' = 0
    /\ pc' = "loop"
    /\ ret' = 0
    /\ returned' = {}
    /\ examined' = {}
    /\ failedDays' = {}
    /\ before' = Found
    /\ fetched' = <<>>
    /\ UNCHANGED <<inputs, disk, pubLog, upstream, new_stories, page, data, idx, batch_size, prev>>

----------------------------------------------------------------------------
(* mine_date / mine_date_all *)

\* one successful fetch_documents and the test of its results
FetchOk(resp) ==
    /\ pc = "fetch"
    /\ returned' = returned \cup Range(resp.results)
    /\ IF resp.results = <<>>
       THEN pc' = "mined" /\ data' = NoData /\ idx' = 0
       ELSE pc' = "docs" /\ data' = resp /\ idx' = 1
    /\ fetched' = Append(fetched, [page |-> page,
                                    outcome |-> IF resp.results = <<>> THEN "empty"
                                                ELSE "results"])
    /\ UNCHANGED <<inputs, disk, pubLog, upstream, runs, mode, state, new_stories, page,
                   batch_size, days_back, batch_commit_size, i, batch_stories,
                   total_new, ret, examined, failedDays, before, prev>>

\* fetch_documents raises (network, status, payload)
FetchFail ==
    /\ pc = "fetch"
    /\ upstream = "any"
    /\ pc' = AfterFetchError
    /\ failedDays' = failedDays \cup {i}
    /\ fetched' = Append(fetched, [page |-> page, outcome |-> "error"])
    /\ UNCHANGED <<inputs, disk, pubLog, upstream, runs, mode, memory, ret, returned, examined,
                   before, prev>>

\* one pass of the for loop over the results
ProcessDoc ==
    /\ pc = "docs"
    /\ idx <= Len(data.results)
    /\ LET doc_num == data.results[idx]
           story_num == state.next_story_num
           filename == create_story_html(Title(doc_num), story_num)
           grown == Append(new_stories, <<filename, Headline(doc_num)>>)
       IN /\ examined' = examined \cup {doc_num}
          /\ IF AlreadyPublished(doc_num, state)
             THEN /\ idx' = idx + 1
                  /\ UNCHANGED <<artifacts, new_stories, state, pc, data>>
             ELSE /\ artifacts' = WriteFile(artifacts, filename, doc_num)
                  /\ new_stories' = grown
                  /\ state' = RecordPublished(state, doc_num)
                  /\ IF mode = "single" /\ BatchFull(grown, batch_size)
                     THEN pc' = "mined" /\ data' = NoData /\ idx' = 0
                     ELSE pc' = pc /\ data' = data /\ idx' = idx + 1
    /\ UNCHANGED <<inputs, fetched, stateFile, indexFile, pubLog, upstream, runs, mode, page, batch_size,
                   days_back, batch_commit_size, i, batch_stories, total_new, ret,
                   returned, failedDays, before, prev>>

\* after the for loop: page += 1; sleep; if page > data.get('total_pages', 1): break
EndPage ==
    /\ pc = "docs"
    /\ idx > Len(data.results)
    /\ page' = page + 1
    /\ pc' = IF PastLastPage(page + 1, data) THEN "mined" ELSE "fetch"
    /\ data' = NoData
    /\ idx' = 0
    /\ UNCHANGED <<inputs, fetched, disk, pubLog, upstream, runs, mode, state, new_stories, batch_size,
                   days_back, batch_commit_size, i, batch_stories, total_new, ret,
                   returned, examined, failedDays, before, prev>>

----------------------------------------------------------------------------
(* main of federal_register_miner.py, after mine_date has returned *)

SingleAfterMine ==
    /\ pc = "mined"
    /\ mode = "single"
    /\ IF HasNew(new_stories)
       THEN pc' = SingleFlush[1] /\ ret' = ret
       ELSE pc' = "done" /\ ret' = Len(new_stories)
    /\ UNCHANGED <<inputs, fetched, disk, pubLog, upstream, runs, mode, memory, returned, examined,
                   failedDays, before, prev>>

\* update_index(new_stories)
UpdateIndex ==
    /\ pc = "index"
    /\ indexFile' = update_index(indexFile, new_stories)
    /\ pc' = AfterStep(FlushOf(mode), pc)
    /\ UNCHANGED <<inputs, fetched, stateFile, artifacts, pubLog, upstream, runs, mode, memory, ret,
                   returned, examined, failedDays, before, prev>>

\* save_state(state)
SaveState ==
    /\ pc = "save"
    /\ stateFile' = state
    /\ pc' = AfterStep(FlushOf(mode), pc)
    /\ UNCHANGED <<inputs, fetched, artifacts, indexFile, pubLog, upstream, runs, mode, memory, ret,
                   returned, examined, failedDays, before, prev>>

\* git_commit_push(message): os.system's exit status is not looked at
Publish(ok) ==
    /\ pc = "publish"
    /\ LET batch == IF mode = "single" THEN new_stories ELSE batch_stories
       IN pubLog' = Append(pubLog, [run |-> runs, count |-> Len(batch),
                                    docs |-> DocsOf(batch, artifacts), ok |-> ok])
    /\ pc' = AfterStep(FlushOf(mode), pc)
    /\ UNCHANGED <<inputs, fetched, disk, upstream, runs, mode, memory, ret, returned, examined,
                   failedDays, before, prev>>

\* single-date: print and return len(new_stories)
SingleFlushed ==
    /\ pc = "flushed"
    /\ mode = "single"
    /\ pc' = "done"
    /\ ret' = Len(new_stories)
    /\ UNCHANGED <<inputs, fetched, disk, pubLog, upstream, runs, mode, memory, returned, examined,
                   failedDays, before, prev>>

----------------------------------------------------------------------------
(* main of historical_fr_miner.py *)

\* for i in range(days_back): the call of mine_date_all, or the end of the loop
HistLoop ==
    /\ pc = "loop"
    /\ IF i < days_back
       THEN pc' = "fetch" /\ new_stories' = <<>> /\ page' = 1
       ELSE pc' = "final" /\ new_stories' = <<>> /\ page' = 0
    /\ fetched' = <<>>
    /\ UNCHANGED <<inputs, disk, pubLog, upstream, runs, mode, state, data, idx, batch_size,
                   days_back, batch_commit_size, i, batch_stories, total_new, ret,
                   returned, examined, failedDays, before, prev>>

\* batch_stories.extend(new_stories); total_new += ...; the checkpoint test
HistAfterDate ==
    /\ pc = "mined"
    /\ mode = "hist"
    /\ batch_stories' = batch_stories \o new_stories
    /\ total_new' = total_new + Len(new_stories)
    /\ IF CheckpointDue(batch_stories \o new_stories, batch_commit_size)
       THEN pc' = HistFlush[1] /\ i' = i
       ELSE pc' = "loop" /\ i' = i + 1
    /\ UNCHANGED <<inputs, fetched, disk, pubLog, upstream, runs, mode, state, new_stories, page, data,
                   idx, batch_size, days_back, batch_commit_size, ret, returned,
                   examined, failedDays, before, prev>>

\* after the loop: if batch_stories ... else the return
HistFinal ==
    /\ pc = "final"
    /\ IF FinalDue(batch_stories)
       THEN pc' = HistFlush[1] /\ ret' = ret
       ELSE pc' = "done" /\ ret' = total_new
    /\ UNCHANGED <<inputs, fetched, disk, pubLog, upstream, runs, mode, memory, returned, examined,
                   failedDays, before, prev>>

\* after a flush: batch_stories = [] and the next day, or the return after the last one
HistFlushed ==
    /\ pc = "flushed"
    /\ mode = "hist"
    /\ IF i < days_back
       THEN /\ batch_stories' = <<>>
            /\ i' = i + 1
            /\ pc' = "loop"
            /\ ret' = ret
       ELSE /\ batch_stories' = batch_stories
            /\ i' = i
            /\ pc' = "done"
            /\ ret' = total_new
    /\ UNCHANGED <<inputs, fetched, disk, pubLog, upstream, runs, mode, state, new_stories, page, data,
                   idx, batch_size, days_back, batch_commit_size, total_new, returned,
                   examined, failedDays, before, prev>>

----------------------------------------------------------------------------
(* End of the process *)

\* main has returned
Exit ==
    /\ pc = "done"
    /\ pc' = "idle"
    /\ mode' = "none"
    /\ prev' = [ended |-> TRUE, mode |-> mode, limit |-> batch_size,
                returned |-> returned, examined |-> examined]
    /\ IdleMemory
    /\ ret' = 0
    /\ returned' = {}
    /\ examined' = {}
    /\ failedDays' = {}
    /\ before' = NoBefore
    /\ fetched' = <<>>
    /\ UNCHANGED <<inputs, disk, pubLog, upstream, runs>>

\* the process is terminated between two steps
Crash ==
    /\ pc \notin { "idle", "done" }
    /\ pc' = "idle"
    /\ mode' = "none"
    /\ prev' = NoPrev
    /\ IdleMemory
    /\ ret' = 0
    /\ returned' = {}
    /\ examined' = {}
    /\ failedDays' = {}
    /\ before' = NoBefore
    /\ fetched' = <<>>
    /\ UNCHANGED <<inputs, disk, pubLog, upstream, runs>>

Next ==
    \/ \E limit \in BatchSizes : StartSingle(limit)
    \/ \E p \in HistParams : StartHist(p[1], p[2])
    \/ \E resp \in Responses(upstream, i, page) : FetchOk(resp)
    \/ FetchFail
    \/ ProcessDoc
    \/ EndPage
    \/ SingleAfterMine
    \/ UpdateIndex
    \/ SaveState
    \/ \E ok \in BOOLEAN : Publish(ok)
    \/ SingleFlushed
    \/ HistLoop
    \/ HistAfterDate
    \/ HistFinal
    \/ HistFlushed
    \/ Exit
    \/ Crash

Spec == Init /\ [][Next]_vars

----------------------------------------------------------------------------
(* Properties *)

IsPrefix(s, t) == Len(s) <= Len(t) /\ SubSeq(t, 1, Len(s)) = s

InRun == mode # "none"
Ledger == Range(state.published_docs)
SavedLedger == IF stateFile = NoFile THEN {} ELSE Range(stateFile.published_docs)
Created == DocsOf(new_stories, artifacts)
ArtifactsOf(d) == { a \in artifacts : a.doc = d }

\* C1: a document whose identifier is in the ledger when the for loop reaches it is
\* skipped: the step writes no artifact, returns no story, and leaves the ledger, the
\* cursor and the files as they were.
C1_SkipHasNoEffect ==
    [][ (/\ pc = "docs"
         /\ idx <= Len(data.results)
         /\ data.results[idx] \in Ledger
         /\ pc' # "idle")
        => /\ artifacts' = artifacts
           /\ new_stories' = new_stories
           /\ state' = state
           /\ stateFile' = stateFile
           /\ indexFile' = indexFile
           /\ pubLog' = pubLog ]_vars

\* a run has passed over the first document of page 1, which the state file held
C1_Skipped ==
    /\ pc = "docs"
    /\ page = 1
    /\ idx = 2
    /\ new_stories = <<>>
    /\ data.results[1] \in SavedLedger
    /\ Len(data.results) = 2
    /\ data.results[2] \notin Ledger

\* C2 as stated (for limits of at least 1): a single-date run that follows a completed
\* single-date run creates no story for a document the upstream returned in both.
C2_NothingNewForReturnedTwice ==
    (mode = "single" /\ batch_size >= 1 /\ prev.ended /\ prev.mode = "single"
        /\ prev.limit >= 1)
        => Created \cap prev.returned = {}

\* C2 amended: a run that follows a completed run creates no story for a document
\* the earlier run's for loop had reached.
C2_NothingNewForExaminedBefore ==
    (InRun /\ prev.ended) => Created \cap prev.examined = {}

\* the second of two single-date runs has ended after passing over a document the
\* first one had reached, and published another
C2_SecondRunEnded ==
    /\ mode = "single"
    /\ pc = "done"
    /\ prev.ended
    /\ prev.mode = "single"
    /\ examined \cap prev.examined # {}
    /\ Created # {}

\* C3: no document has more than one artifact, and between runs every document with
\* an artifact is in the ledger of the state file.
C3_NoDuplicateNoLoss ==
    /\ \A a \in artifacts : a.doc # NoDoc => Cardinality(ArtifactsOf(a.doc)) = 1
    /\ pc = "idle" => \A a \in artifacts : a.doc # NoDoc => a.doc \in SavedLedger

NumberedArtifacts == { a \in artifacts : IsStoryFile(a.name) /\ HasNumber(a.name) }
WrittenInRun == artifacts \ before.artifacts

\* C4: from its start to its end, and so after it, a run's next_story_num is greater
\* than the sequence number in the name of every artifact on disk, whatever the state
\* file held when the run began.
C4_CursorAboveEveryArtifact ==
    InRun => \A a \in NumberedArtifacts : state.next_story_num > EmbeddedNum(a.name)

\* a run that published nothing has ended where artifacts exist and the state file
\* does not, or holds a cursor that is not above them
C4_EndedOverStaleFile ==
    /\ pc = "done"
    /\ ret = 0
    /\ \E a \in NumberedArtifacts : a.doc # NoDoc
    /\ \/ stateFile = NoFile
       \/ \E a \in NumberedArtifacts : stateFile.next_story_num <= EmbeddedNum(a.name)

\* C5: no step of a run removes or reorders an identifier of the ledger, and every
\* identifier a step adds is one the fetcher has returned during the run.
C5_LedgerAppendOnly ==
    [][ (InRun /\ mode' # "none")
        => /\ IsPrefix(state.published_docs, state'.published_docs)
           /\ \A k \in Len(state.published_docs) + 1 .. Len(state'.published_docs) :
                 state'.published_docs[k] \in returned' ]_vars

\* a run has added an identifier to a ledger it loaded with one in it
C5_LedgerGrew ==
    /\ InRun
    /\ stateFile # NoFile
    /\ Len(stateFile.published_docs) >= 1
    /\ Len(state.published_docs) > Len(stateFile.published_docs)

\* C6 as stated: for every limit, single-date mining returns at most that many
\* stories and writes at most that many artifacts.
C6_AtMostLimit ==
    mode = "single"
        => /\ Len(new_stories) <= batch_size
           /\ Cardinality(WrittenInRun) <= batch_size

\* C6 amended: the same for every limit of at least 1.
C6_AtMostPositiveLimit ==
    (mode = "single" /\ batch_size >= 1)
        => /\ Len(new_stories) <= batch_size
           /\ Cardinality(WrittenInRun) <= batch_size

\* mining has stopped at the limit with an unpublished document of the page left
C6_StoppedAtLimit ==
    /\ mode = "single"
    /\ pc = "mined"
    /\ batch_size >= 1
    /\ Len(new_stories) = batch_size
    /\ returned \ Ledger # {}

\* C7: a single-date run that ends with no new story has left the state file, the
\* index file and the artifacts as it found them, has not called publish, and
\* reports zero.
C7_NothingNewNothingWritten ==
    (mode = "single" /\ pc = "done" /\ new_stories = <<>>)
        => /\ stateFile = before.stateFile
           /\ indexFile = before.indexFile
           /\ artifacts = before.artifacts
           /\ Len(pubLog) = before.calls
           /\ ret = 0

\* a single-date run has ended with nothing new after passing over documents of the
\* ledger
C7_EndedWithNothingNew ==
    /\ mode = "single"
    /\ pc = "done"
    /\ new_stories = <<>>
    /\ examined # {}
    /\ stateFile # NoFile

RECURSIVE CountOfRun(_, _)
CountOfRun(log, r) ==
    IF log = <<>> THEN 0
    ELSE CountOfRun(Tail(log), r) + (IF log[1].run = r THEN log[1].count ELSE 0)

\* stories this run has handed to publish, and those it has not yet
Flushed == CountOfRun(pubLog, runs)
Unflushed == total_new - Flushed

\* C8, the rule: at the top of main's loop the accumulator holds exactly the stories not
\* yet handed to publish, fewer than the threshold once a date has been mined; a
\* checkpoint flush begins only with the threshold reached; when a flush is over,
\* the state file is the run's state and the last call's count is the accumulator.
C8_CheckpointRule ==
    mode = "hist"
        => /\ pc = "loop"
                => /\ Len(batch_stories) = Unflushed
                   /\ i >= 1 => Unflushed < batch_commit_size
           /\ (pc \in { "save", "publish" } /\ i < days_back)
                => /\ Unflushed >= batch_commit_size
                   /\ Len(batch_stories) = Unflushed
           /\ pc = "flushed"
                => /\ Unflushed = 0
                   /\ stateFile = state
                   /\ pubLog[Len(pubLog)].run = runs
                   /\ pubLog[Len(pubLog)].count = Len(batch_stories)

\* C8, the scenario of three days of forty documents with threshold 100
C8_FortyPerDay ==
    (upstream = "forty_per_day" /\ mode = "hist" /\ batch_commit_size = 100)
        => /\ (pc = "loop" /\ i \in { 1, 2 })
                => /\ pubLog = <<>>
                   /\ stateFile = NoFile
                   /\ Len(batch_stories) = 40 * i
           /\ (pc \in { "loop", "final", "done" } /\ i = 3)
                => /\ Len(pubLog) = 1
                   /\ pubLog[1].count = 120
                   /\ stateFile = state
                   /\ batch_stories = <<>>
           /\ pc = "done" => ret = 120

\* C8: in a historical run, after each date the state is saved and publish is called
\* exactly when the stories accumulated since the last flush have reached the
\* threshold; the flush hands over all of them and empties the accumulator.  With
\* three days of forty new documents and a threshold of 100 there is no flush after
\* day 1 or day 2, one flush of 120 after day 3, and nothing left for a final flush.
C8_Checkpoints == C8_CheckpointRule /\ C8_FortyPerDay

\* the run of three days of forty documents has ended after its one flush
C8_FortyPerDayEnded ==
    /\ upstream = "forty_per_day"
    /\ mode = "hist"
    /\ pc = "done"
    /\ Len(pubLog) = 1
    /\ Cardinality(WrittenInRun) = 120

\* C9: every call of publish comes after a save, in the same run, of a ledger that
\* holds every document of the batch handed over; so whatever publish answered, no
\* later run creates a story for a document of that batch.
C9_SavedBeforePublished ==
    /\ \A k \in 1 .. Len(pubLog) : pubLog[k].docs \subseteq SavedLedger
    /\ (InRun /\ Len(pubLog) > before.calls) => stateFile # before.stateFile
    /\ InRun => \A k \in 1 .. Len(pubLog) :
                    pubLog[k].run < runs => pubLog[k].docs \cap Created = {}

\* a run has ended after passing over a document whose publish, in an earlier run,
\* had failed
C9_PassedOverAfterFailedPublish ==
    /\ pc = "done"
    /\ \E k \in 1 .. Len(pubLog) :
          /\ pubLog[k].run < runs
          /\ ~pubLog[k].ok
          /\ pubLog[k].docs \cap examined # {}

StartCursor == get_next_story_num(FileNames(before.artifacts))
LedgerFound == Range(load_state(before.stateFile).published_docs)

\* C10: a failed fetch ends the mining of its date and nothing else: the step changes
\* no story, ledger, cursor or file; the date is not fetched again; what mining
\* returns, and the ledger and cursor, are those of the stories created before; in a
\* historical run the next step belongs to main's loop.
C10_FetchFailure ==
    /\ [][ (pc = "fetch" /\ i \notin failedDays /\ i \in failedDays')
            => /\ pc' = "mined"
               /\ UNCHANGED <<new_stories, state, artifacts, stateFile, indexFile,
                              pubLog, mode, i>> ]_vars
    /\ [][ (mode = "hist" /\ pc = "mined" /\ i \in failedDays /\ pc' # "idle")
            => /\ mode' = "hist"
               /\ batch_stories' = batch_stories \o new_stories
               /\ pc' \in { "loop", "save" } ]_vars
    /\ [](pc \in { "fetch", "docs" } => i \notin failedDays)
    /\ []((pc = "mined" /\ i \in failedDays)
            => /\ state.next_story_num = StartCursor + Cardinality(WrittenInRun)
               /\ Ledger = LedgerFound \cup { a.doc : a \in WrittenInRun }
               /\ Created \subseteq { a.doc : a \in WrittenInRun }
               /\ Len(new_stories) = Cardinality(Created))

\* a historical run is on the second day's documents after the fetch of the first
\* day's second page failed, with the first page's stories kept
C10_NextDateAfterFailure ==
    /\ mode = "hist"
    /\ pc = "docs"
    /\ i = 1
    /\ 0 \in failedDays
    /\ batch_stories # <<>>

----------------------------------------------------------------------------
(* Failure of the publish collaborator *)

\* a git_commit_push of the run in progress whose command failed
FailedPublish == \E k \in before.calls + 1 .. Len(pubLog) : ~pubLog[k].ok

\* C11: once a publish of a run has failed, that run mines no further date and makes
\* no further save_state or git_commit_push.
C11_FailedPublishEndsRun ==
    (InRun /\ FailedPublish) => pc \notin { "fetch", "docs", "save", "publish" }

----------------------------------------------------------------------------
(* The index after a run *)

IndexContent == IF indexFile = NoIndex THEN <<>> ELSE indexFile
Linked == { IndexContent[k].filename :
                k \in { j \in 1 .. Len(IndexContent) : IndexContent[j].kind = "li" } }

\* C12: when a run of either mode has come to its end, the index holds a link to every
\* artifact the run created.
C12_IndexHasEveryNewPage ==
    pc = "done" => \A a \in WrittenInRun : a.name \in Linked

----------------------------------------------------------------------------
(* slugify and create_story_html on their own, over titles and sequence numbers *)

MaxTail == 2        \* characters of a title after its run of letters

TitleChars == { "A", "b", "7", " ", "-", "_", "!" }
Letters(n) == [k \in 1 .. n |-> "a"]

\* titles: a run of letters, none or about as long as slugify's cut, then a tail
Titles ==
    { Letters(n) \o t : n \in { 0, SlugMax - 2, SlugMax - 1, SlugMax },
                        t \in SeqsUpTo(TitleChars, MaxTail) }

\* sequence numbers: below, at and above the width of the zero padding
StoryNums == { 1, 42, 999, 1000, 12345 }

RenderInit ==
    /\ stateFile = NoFile
    /\ artifacts \in { {}, {ForeignFile} }
    /\ indexFile = NoIndex
    /\ upstream = "none"
    /\ AtRest
    /\ feed = <<>>
    /\ arg_title \in Titles
    /\ arg_num \in StoryNums
    /\ result = <<>>

\* slug = slugify(title)
Slugify ==
    /\ pc = "idle"
    /\ result' = slugify(arg_title)
    /\ pc' = "slugged"
    /\ UNCHANGED <<disk, pubLog, upstream, runs, mode, memory, ret, returned, examined,
                   failedDays, fetched, before, prev, feed, arg_title, arg_num>>

\* create_story_html writes its file into the directory
Render ==
    /\ pc \in { "idle", "slugged" }
    /\ artifacts' = WriteFile(artifacts, create_story_html(arg_title, arg_num), NoDoc)
    /\ pc' = "rendered"
    /\ UNCHANGED <<stateFile, indexFile, pubLog, upstream, runs, mode, memory, ret,
                   returned, examined, failedDays, fetched, before, prev, inputs>>

RenderNext ==
    \/ Slugify
    \/ Render

RenderSpec == RenderInit /\ [][RenderNext]_vars

SlugChars == Range(LowerChars) \cup Range(DigitChars) \cup {"-"}

\* C13: what slugify returns holds only lowercase letters, digits and hyphens, is at
\* most 50 characters long, and neither starts nor ends with a hyphen.
C13_SlugWellFormed ==
    pc = "slugged"
        => /\ Range(result) \subseteq SlugChars
           /\ Len(result) <= SlugMax
           /\ result # <<>> => (result[1] # "-" /\ result[Len(result)] # "-")

----------------------------------------------------------------------------
(* Pagination *)

Mining == pc \in { "fetch", "docs" }

\* what is left of the mining of a date: pages, then the fetch of the current page,
\* then the documents of the current page
Rank ==
    <<MaxPages - page,
      IF pc = "fetch" THEN 1 ELSE 0,
      IF pc = "docs" THEN Len(data.results) + 1 - idx ELSE 0>>

LexLess(a, b) ==
    \/ a[1] < b[1]
    \/ a[1] = b[1] /\ a[2] < b[2]
    \/ a[1] = b[1] /\ a[2] = b[2] /\ a[3] < b[3]

\* C14: the requests of one date are for pages 1, 2, 3, ... in that order, each once;
\* only the last of them can have returned no results or failed; the first request of
\* a date is for page 1 and a further one is made only for the page after the current
\* one and only when that page is not beyond the total_pages of the last response; and
\* every step of the mining of a date lowers a rank that cannot go below zero, so the
\* mining of a date ends when total_pages is bounded.
C14_Pagination ==
    /\ [](/\ \A k \in 1 .. Len(fetched) : fetched[k].page = k
          /\ \A k \in 1 .. Len(fetched) - 1 : fetched[k].outcome = "results"
          /\ pc = "fetch" => /\ page = Len(fetched) + 1
                             /\ \A k \in 1 .. Len(fetched) : fetched[k].outcome = "results"
          /\ pc = "docs" => /\ page = Len(fetched)
                            /\ fetched[page].outcome = "results"
          /\ Mining => \A k \in 1 .. 3 : Rank[k] >= 0)
    /\ [][ (Len(fetched') > Len(fetched))
            => /\ pc = "fetch"
               /\ fetched' = Append(fetched, [page |-> page, outcome |-> fetched'[page].outcome])
               /\ fetched'[page].outcome # "results" => pc' = "mined" ]_vars
    /\ [][ (pc # "fetch" /\ pc' = "fetch")
            => \/ pc = "docs" /\ page' = page + 1 /\ page' <= data.total_pages
                  /\ fetched' = fetched
               \/ pc \in { "idle", "loop" } /\ page' = 1 /\ fetched' = <<>> ]_vars
    /\ [][ (Mining /\ Mining') => LexLess(Rank', Rank) ]_vars

\* the mining of a date has ended on its second page, which had no results
C14_EndedOnEmptySecondPage ==
    /\ pc = "mined"
    /\ Len(fetched) = 2
    /\ fetched[2].outcome = "empty"

----------------------------------------------------------------------------
(* Start-up reconciliation *)

FoundNumbers ==
    { EmbeddedNum(a.name) : a \in { b \in before.artifacts :
                                        IsStoryFile(b.name) /\ HasNumber(b.name) } }

\* C15: while a run has looked at no document yet, its cursor is 1 plus the largest
\* sequence number in the names of the artifacts the run found, or 1 when it found
\* none, whatever next_story_num the state file held and whether or not it existed.
C15_CursorReconciled ==
    (InRun /\ examined = {})
        => state.next_story_num =
              IF FoundNumbers = {} THEN 1
              ELSE 1 + (CHOOSE n \in FoundNumbers : \A m \in FoundNumbers : m <= n)

\* a run has started over a state file whose next_story_num is not the number after
\* the largest one on disk
C15_StartedOverOtherCursor ==
    /\ InRun
    /\ examined = {}
    /\ before.stateFile # NoFile
    /\ before.stateFile.next_story_num # state.next_story_num

----------------------------------------------------------------------------
(* update_index on its own, over index contents and lists of stories *)

MaxIndexLen == 3    \* pieces of an index file found on disk
MaxNew == 2         \* stories in one call of update_index
MaxUpdates == 2     \* calls of update_index in one behaviour

GivenStories ==
    { <<create_story_html(Title(d), n), Headline(d)>> : d \in Docs, n \in 1 .. MaxNew }

\* an index file found on disk: text, markers and links in any arrangement, so with
\* one marker, several or none
IndexPieces == { Text("a"), Text("b"), Marker } \cup { Link(st) : st \in GivenStories }
IndexFiles == SeqsUpTo(IndexPieces, MaxIndexLen)

IndexInit ==
    /\ stateFile = NoFile
    /\ artifacts = {}
    /\ \/ indexFile = NoIndex
       \/ indexFile \in IndexFiles
    /\ upstream = "none"
    /\ AtRest
    /\ NoInputs

\* one call update_index(stories)
IndexUpdate(stories) ==
    /\ pc = "idle"
    /\ runs < MaxUpdates
    /\ runs' = runs + 1
    /\ new_stories' = stories
    /\ indexFile' = update_index(indexFile, stories)
    /\ UNCHANGED <<stateFile, artifacts, pubLog, upstream, mode, pc, state, page, data,
                   idx, batch_size, days_back, batch_commit_size, i, batch_stories,
                   total_new, ret, returned, examined, failedDays, fetched, before, prev,
                   inputs>>

IndexNext == \E stories \in SeqsUpTo(GivenStories, MaxNew) : IndexUpdate(stories)

IndexSpec == IndexInit /\ [][IndexNext]_vars

Read(file) == IF file = NoIndex THEN DefaultIndex ELSE file
HasMarker(c) == \E k \in 1 .. Len(c) : c[k] = Marker
IsLink(piece) == piece.kind = "li"
LinksOf(c) == SelectSeq(c, IsLink)
NewLinks(stories) == [k \in 1 .. Len(stories) |-> Link(stories[k])]

RECURSIVE IsSubseq(_, _)
IsSubseq(a, b) ==
    IF a = <<>> THEN TRUE
    ELSE IF b = <<>> THEN FALSE
    ELSE IF a[1] = b[1] THEN IsSubseq(Tail(a), Tail(b))
    ELSE IsSubseq(a, Tail(b))

\* the new content is the old one with the links right after its first marker
InsertedAtAnchor(old, links, new) ==
    \E p \in 1 .. Len(old) :
        /\ old[p] = Marker
        /\ \A j \in 1 .. p - 1 : old[j] # Marker
        /\ Len(new) = Len(old) + Len(links)
        /\ SubSeq(new, 1, p) = SubSeq(old, 1, p)
        /\ SubSeq(new, p + 1, p + Len(links)) = links
        /\ SubSeq(new, p + Len(links) + 1, Len(new)) = SubSeq(old, p + 1, Len(old))

\* C16, as claimed: whatever the index held, update_index puts the new entries, in
\* the order of the list, right after the anchor and leaves the rest as it was, and
\* the entries that were in the index stay, in their order.
C16_InsertedWhateverTheContent ==
    [][ runs' = runs + 1
          => /\ InsertedAtAnchor(Read(indexFile), NewLinks(new_stories'), indexFile')
             /\ IsSubseq(LinksOf(Read(indexFile)), LinksOf(indexFile')) ]_vars

\* C16: when the index holds the anchor, or does not exist, update_index puts the new
\* entries, in the order of the list, right after the first anchor and leaves the rest
\* as it was; when the index holds no anchor it is written back as it was; in both
\* cases the entries that were in the index stay, in their order.
C16_InsertedAtAnchorIfAny ==
    [][ runs' = runs + 1
          => /\ IF HasMarker(Read(indexFile))
                THEN InsertedAtAnchor(Read(indexFile), NewLinks(new_stories'), indexFile')
                ELSE indexFile' = indexFile
             /\ IsSubseq(LinksOf(Read(indexFile)), LinksOf(indexFile')) ]_vars

\* the second of two updates has put two entries into an index that held an entry
C16_SecondUpdate ==
    /\ runs = 2
    /\ Len(new_stories) = 2
    /\ HasMarker(indexFile)
    /\ Len(LinksOf(indexFile)) >= 3

----------------------------------------------------------------------------
(* The flushes of a historical run *)

\* the calls of git_commit_push the run in progress has made
CallsOfRun == before.calls + 1 .. Len(pubLog)
FlushesWith(d) == { k \in CallsOfRun : d \in pubLog[k].docs }

\* C17: when a historical run has come to its end, each story it created was in the
\* batch of exactly one of its flushes, the flushes together held as many stories as
\* the run created, and the state file holds the identifier of every document the run
\* wrote an artifact for.
C17_EveryStoryFlushedOnce ==
    (mode = "hist" /\ pc = "done")
        => /\ \A a \in WrittenInRun : Cardinality(FlushesWith(a.doc)) = 1
           /\ Flushed = Cardinality(WrittenInRun)
           /\ ret = Cardinality(WrittenInRun)
           /\ \A a \in WrittenInRun : a.doc \in SavedLedger
           /\ WrittenInRun # {} => stateFile = state

\* a historical run has ended after a checkpoint flush and a final flush of a
\* remainder below the threshold
C17_EndedAfterBothFlushes ==
    /\ mode = "hist"
    /\ pc = "done"
    /\ Cardinality(CallsOfRun) >= 2
    /\ pubLog[Len(pubLog)].count < batch_commit_size

----------------------------------------------------------------------------
(* The filename and the number read back from it *)

Rendered == { a \in artifacts : a # ForeignFile }

\* C18: the file create_story_html has written for a title and a story_num is a story
\* file whose name, read by get_next_story_num's pattern, gives that story_num, and
\* get_next_story_num over the directory returns at least story_num + 1.
C18_NumberReadBack ==
    pc = "rendered"
        => /\ Rendered # {}
           /\ \A a \in Rendered :
                /\ IsStoryFile(a.name)
                /\ HasNumber(a.name)
                /\ EmbeddedNum(a.name) = arg_num
           /\ get_next_story_num(FileNames(artifacts)) >= arg_num + 1

\* a file has been written for a number of four digits and a title whose slug
\* begins with a digit
C18_RenderedDigitSlug ==
    /\ pc = "rendered"
    /\ arg_num = 1000
    /\ slugify(arg_title) # <<>>
    /\ IsDigit(slugify(arg_title)[1])

----------------------------------------------------------------------------
(* Sequence numbers *)

NumberOf(story) == EmbeddedNum(story[1])

\* C19: no two story files on disk have the same sequence number; the stories a run
\* has created carry the numbers from the reconciled cursor on, without a gap, and the
\* story created by a step carries the number after those created before it.
C19_NumbersUniqueAndConsecutive ==
    /\ [](Cardinality({ EmbeddedNum(a.name) : a \in NumberedArtifacts })
            = Cardinality(NumberedArtifacts))
    /\ [](InRun =>
            LET first == StartCursor
                count == Cardinality(WrittenInRun)
            IN /\ { EmbeddedNum(a.name) : a \in WrittenInRun } = first .. first + count - 1
               /\ state.next_story_num = first + count
               /\ \A k \in 1 .. Len(new_stories) :
                    NumberOf(new_stories[k])
                      = state.next_story_num - Len(new_stories) + k - 1)
    /\ [][ (InRun /\ artifacts' # artifacts)
            => LET story == new_stories'[Len(new_stories')]
               IN /\ new_stories' = Append(new_stories, story)
                  /\ NumberOf(story) = state.next_story_num
                  /\ state.next_story_num = StartCursor + Cardinality(WrittenInRun)
                  /\ artifacts' \ artifacts = { a \in artifacts' : a.name = story[1] }
                  /\ artifacts \subseteq artifacts' ]_vars

\* a run that found numbered story files of earlier runs on disk has created two
\* stories
C19_SecondRunCreatedTwo ==
    /\ InRun
    /\ \E a \in before.artifacts : a.doc # NoDoc
    /\ Len(new_stories) = 2

----------------------------------------------------------------------------
(* Repeated single-date runs against an upstream whose content does not change *)

StableInit ==
    /\ stateFile = NoFile
    /\ artifacts = {}
    /\ indexFile = NoIndex
    /\ upstream = "stable"
    /\ AtRest
    /\ feed \in Feeds
    /\ arg_title = <<>>
    /\ arg_num = 0
    /\ result = <<>>

\* the steps of single-date runs in which no fetch fails, the process is not
\* terminated and the publish command succeeds
StableNext ==
    \/ \E limit \in BatchSizes : StartSingle(limit)
    \/ \E resp \in Responses(upstream, i, page) : FetchOk(resp)
    \/ ProcessDoc
    \/ EndPage
    \/ SingleAfterMine
    \/ UpdateIndex
    \/ SaveState
    \/ Publish(TRUE)
    \/ SingleFlushed
    \/ Exit

\* a run in progress takes its next step, and a further run is started, as long as
\* StableRuns allows one
StableSpec == StableInit /\ [][StableNext]_vars /\ WF_vars(StableNext)

AllPublished ==
    /\ FeedDocs \subseteq SavedLedger
    /\ \A d \in FeedDocs : Cardinality(ArtifactsOf(d)) = 1

\* C20: against a stable upstream and without failures, repeated single-date runs
\* reach a point from which on every document of the feed is in the saved ledger and
\* has exactly one artifact, at the latest after as many runs as the feed has
\* documents; once that is so it stays so, and a run that starts from there writes
\* nothing and returns zero.
C20_EventuallyAllPublished ==
    /\ <>[]AllPublished
    /\ [](pc = "idle" /\ runs >= Cardinality(FeedDocs) => AllPublished)
    /\ [][AllPublished => AllPublished']_vars
    /\ []((InRun /\ FeedDocs \subseteq LedgerFound)
            => /\ new_stories = <<>>
               /\ artifacts = before.artifacts
               /\ pc = "done" => ret = 0)

\* after two runs that each published one of the feed's documents, a third run has
\* ended with nothing new
C20_ThirdRunNothingNew ==
    /\ upstream = "stable"
    /\ runs = 3
    /\ pc = "done"
    /\ ret = 0
    /\ Cardinality(FeedDocs) = 2
    /\ FeedDocs \subseteq LedgerFound
    /\ Len(pubLog) = 2

====
